---------------------------- MODULE Spec2Model ----------------------------
(***************************************************************************)
(* A model of ocr-runner (wintermi/ocr-runner): the batch loop of          *)
(* DetectImageText with its buffered output stream, the file collection of *)
(* PopulateImages, main's exit statuses, and the pure helpers of the two   *)
(* OCR backends (bounding box, orientation, text-anchor extraction).       *)
(*                                                                         *)
(* Strings of the program are sequences of one-character strings; the      *)
(* bytes of the output file are tokens (records [t, v]), one token per     *)
(* JSON member or character, and NL for the newline.                       *)
(***************************************************************************)
EXTENDS Integers, Sequences, FiniteSets, TLC

VARIABLES
    pc,                 \* position of main / DetectImageText
    inputPath,          \* flag -i
    outputFile,         \* flag -o
    outputFull,         \* flag -full
    predictionEndpoint, \* flag -endpoint
    matches,            \* what filepath.Glob returned (the file system's answer)
    Images,             \* files.Images
    i,                  \* loop index of DetectImageText (1-based)
    errorCount,         \* errorCount of DetectImageText
    jsonData,           \* jsonData of the current iteration
    disk,               \* bytes of the output file on disk
    space,              \* bytes the output file can still take (-1: no limit)
    w,                  \* the bufio.Writer: [buf, err]
    createCount,        \* number of times os.Create truncated the output file
    exitStatus,         \* process exit status (-1 while running)
    response,           \* what the backend answered to the last recognition call
    called,             \* history: indices of Images handed to a backend, in call order
    failed,             \* history: indices of Images for which a step failed
    good,               \* history: the complete lines of the records fully written
    fn,                 \* pure-function specifications: the function applied
    arg,                \* pure-function specifications: its input
    res                 \* pure-function specifications: its result

mainVars == <<pc, inputPath, outputFile, outputFull, predictionEndpoint, matches,
              Images, i, errorCount, jsonData, disk, space, w, createCount,
              exitStatus, response, called, failed, good>>
pureVars == <<fn, arg, res>>
vars == <<mainVars, pureVars>>

---------------------------------------------------------------------------
(* Bounds of the model *)

\* longest polygon drawn for the geometry functions
MaxVertices == 3
\* longest document text and longest segment list drawn for GetTextFromSegments
MaxText == 3
MaxSegments == 2
\* longest result of filepath.Glob
MaxMatches == 3
\* size of the bufio.Writer's buffer, in tokens (bufio's default is 4096 bytes)
BufSize == 3
\* largest number of bytes the output file can take before a write fails
MaxSpace == 4
\* most pieces a drawn URL path is made of
MaxPathPieces == 3
\* longest glob result and longest ignore list drawn for the collection functions
MaxCollect == 3
MaxIgnore == 1
\* longest content drawn for the ignore file, and longest ignore list drawn for
\* IsIgnorableFile
MaxContent == 4
MaxPatterns == 2
\* most pages of a drawn annotation tree, and most blocks of a page
MaxPages == 2
MaxBlocks == 2

---------------------------------------------------------------------------
(* go-imath/i32 *)

Maximal == 2147483647
Minimal == -2147483647 - 1

Min(a, b) == IF a < b THEN a ELSE b
Max(a, b) == IF a > b THEN a ELSE b

---------------------------------------------------------------------------
(* Geometry: polygon -> rectangle, polygon -> orientation.  A *BoundingPoly *)
(* is [present, Vertices]; present = FALSE is the nil pointer.              *)

NilPoly == [present |-> FALSE, Vertices |-> <<>>]
Poly(vs) == [present |-> TRUE, Vertices |-> vs]
Vertex(x, y) == [X |-> x, Y |-> y]

\* the zero value of image.Rectangle
ZeroRectangle == [Min |-> [X |-> 0, Y |-> 0], Max |-> [X |-> 0, Y |-> 0]]

\* the loop "for _, vertex := range boundingBox.Vertices" over acc = (minX, minY, maxX, maxY)
RECURSIVE BoxLoop(_, _, _)
BoxLoop(vs, k, acc) ==
    IF k > Len(vs) THEN acc
    ELSE BoxLoop(vs, k + 1,
                 [minX |-> Min(acc.minX, vs[k].X),
                  minY |-> Min(acc.minY, vs[k].Y),
                  maxX |-> Max(acc.maxX, vs[k].X),
                  maxY |-> Max(acc.maxY, vs[k].Y)])

BoxStart == [minX |-> Maximal, minY |-> Maximal, maxX |-> Minimal, maxY |-> Minimal]

BoxResult(acc) == [Min |-> [X |-> acc.minX, Y |-> acc.minY],
                   Max |-> [X |-> acc.maxX, Y |-> acc.maxY]]

\* a slip a bounding box could have: the running maximum starts at 0
GetBoundingBox_MaxFromZero(boundingBox) ==
    IF boundingBox.present
    THEN BoxResult(BoxLoop(boundingBox.Vertices, 1,
                           [minX |-> Maximal, minY |-> Maximal, maxX |-> 0, maxY |-> 0]))
    ELSE ZeroRectangle

GetBoundingBox(boundingBox) ==
    IF boundingBox.present
    THEN BoxResult(BoxLoop(boundingBox.Vertices, 1, BoxStart))
    ELSE ZeroRectangle

GetLayoutBoundingBox(boundingBox) ==
    IF boundingBox.present
    THEN BoxResult(BoxLoop(boundingBox.Vertices, 1, BoxStart))
    ELSE ZeroRectangle

\* Annotation.SetRectangle: the value it assigns to box.BoundingBox
SetRectangle(boundingBox) ==
    IF boundingBox.present
    THEN BoxResult(BoxLoop(boundingBox.Vertices, 1, BoxStart))
    ELSE ZeroRectangle

\* a slip an orientation could have: 90 and 270 exchanged
GetOrientation_Swapped(boundingBox) ==
    IF ~boundingBox.present \/ Len(boundingBox.Vertices) < 3 THEN 0
    ELSE IF boundingBox.Vertices[1].X > boundingBox.Vertices[3].X
         THEN (IF boundingBox.Vertices[1].Y > boundingBox.Vertices[3].Y THEN 180 ELSE 90)
         ELSE (IF boundingBox.Vertices[1].Y > boundingBox.Vertices[3].Y THEN 270 ELSE 0)

\* Vertices[0] and Vertices[2] of the code are Vertices[1] and Vertices[3] here
GetOrientation(boundingBox) ==
    IF ~boundingBox.present \/ Len(boundingBox.Vertices) < 3 THEN 0
    ELSE IF boundingBox.Vertices[1].X > boundingBox.Vertices[3].X
         THEN (IF boundingBox.Vertices[1].Y > boundingBox.Vertices[3].Y THEN 180 ELSE 270)
         ELSE (IF boundingBox.Vertices[1].Y > boundingBox.Vertices[3].Y THEN 90 ELSE 0)

GetLayoutOrientation(boundingBox) ==
    IF ~boundingBox.present \/ Len(boundingBox.Vertices) < 3 THEN 0
    ELSE IF boundingBox.Vertices[1].X > boundingBox.Vertices[3].X
         THEN (IF boundingBox.Vertices[1].Y > boundingBox.Vertices[3].Y THEN 180 ELSE 270)
         ELSE (IF boundingBox.Vertices[1].Y > boundingBox.Vertices[3].Y THEN 90 ELSE 0)

\* Annotation.SetOrientation: the value it assigns to box.Orientation
SetOrientation(boundingBox) ==
    IF ~boundingBox.present \/ Len(boundingBox.Vertices) < 3 THEN 0
    ELSE IF boundingBox.Vertices[1].X > boundingBox.Vertices[3].X
         THEN (IF boundingBox.Vertices[1].Y > boundingBox.Vertices[3].Y THEN 180 ELSE 270)
         ELSE (IF boundingBox.Vertices[1].Y > boundingBox.Vertices[3].Y THEN 90 ELSE 0)

---------------------------------------------------------------------------
(* Text anchors.  A Go slice expression text[a:b] panics unless             *)
(* 0 <= a <= b <= len(text); otherwise it is the bytes a .. b-1 (0-based).  *)

SliceOk(text, a, b) == 0 <= a /\ a <= b /\ b <= Len(text)
Slice(text, a, b) == SubSeq(text, a + 1, b)

Segment(s, e) == [StartIndex |-> s, EndIndex |-> e]

\* a slip the extraction could have: the end index used as it is
RECURSIVE GetTextFromSegments_NoMinusOne(_, _)
GetTextFromSegments_NoMinusOne(textSegments, documentText) ==
    IF textSegments = <<>> THEN [panic |-> FALSE, text |-> <<>>]
    ELSE LET seg == Head(textSegments) IN
         IF ~SliceOk(documentText, seg.StartIndex, seg.EndIndex)
         THEN [panic |-> TRUE, text |-> <<>>]
         ELSE LET rest == GetTextFromSegments_NoMinusOne(Tail(textSegments), documentText) IN
              IF rest.panic THEN rest
              ELSE [panic |-> FALSE,
                    text |-> Slice(documentText, seg.StartIndex, seg.EndIndex) \o rest.text]

\* result += text[textSegment.StartIndex : textSegment.EndIndex-1], segment by segment;
\* [panic |-> TRUE] when a slice expression is out of range
RECURSIVE GetTextFromSegments(_, _)
GetTextFromSegments(textSegments, documentText) ==
    IF textSegments = <<>> THEN [panic |-> FALSE, text |-> <<>>]
    ELSE LET seg == Head(textSegments) IN
         IF ~SliceOk(documentText, seg.StartIndex, seg.EndIndex - 1)
         THEN [panic |-> TRUE, text |-> <<>>]
         ELSE LET rest == GetTextFromSegments(Tail(textSegments), documentText) IN
              IF rest.panic THEN rest
              ELSE [panic |-> FALSE,
                    text |-> Slice(documentText, seg.StartIndex, seg.EndIndex - 1) \o rest.text]

---------------------------------------------------------------------------
(* The prediction endpoint.  A *url.URL is [Host, Path], strings being         *)
(* sequences of characters.                                                   *)

\* strings.Index: the 0-based place of the first occurrence of substr, -1 for none
Index(str, substr) ==
    LET places == {k \in 0..(Len(str) - Len(substr)) :
                      SubSeq(str, k + 1, k + Len(substr)) = substr} IN
    IF places = {} THEN -1 ELSE CHOOSE k \in places : \A m \in places : k <= m

Colon == <<":">>
Port443 == <<":", "4", "4", "3">>
ProjectsDir == <<"/", "p", "r", "o", "j", "e", "c", "t", "s", "/">>

GetHostName(endpoint) ==
    LET host == endpoint.Host IN
    IF Index(host, Colon) >= 0 THEN host ELSE host \o Port443

GetRequestName(endpoint) ==
    LET name == endpoint.Path
        k == Index(name, ProjectsDir) IN
    IF k >= 0
    THEN LET rest == SubSeq(name, k + 2, Len(name))
             c == Index(rest, Colon) IN
         IF c >= 0 THEN SubSeq(rest, 1, c) ELSE rest
    ELSE name

---------------------------------------------------------------------------
(* Backends.  ImageInfo is [Filename, Size, MimeType, Text, Paragraphs] and  *)
(* TextBlock is [BoundingBox, Orientation, Confidence, Text].  A backend      *)
(* call is given what the outside world answers: reply = [err, response],      *)
(* err for any error the call can return (endpoint parse, client, file read,   *)
(* the request itself), response = [present, ...] with present = FALSE for     *)
(* nil.  The result is [kind, info]: "err" the call returned an error, "ok"    *)
(* it returned nil, "panic" a nil dereference or a slice out of range ended    *)
(* the process.                                                                *)

NoText == <<>>

\* strings.Join
RECURSIVE Join(_, _)
Join(elems, sep) ==
    IF elems = <<>> THEN <<>>
    ELSE IF Len(elems) = 1 THEN elems[1]
    ELSE elems[1] \o sep \o Join(Tail(elems), sep)

\* a slip the nested loops could have: the inner sequences taken last first
RECURSIVE Flatten_LastFirst(_)
Flatten_LastFirst(ss) == IF ss = <<>> THEN <<>> ELSE Flatten_LastFirst(Tail(ss)) \o Head(ss)

\* the elements of the sequences of a sequence, in order (nested range loops)
RECURSIVE Flatten(_)
Flatten(ss) == IF ss = <<>> THEN <<>> ELSE Head(ss) \o Flatten(Tail(ss))

PagesParagraphs(pages) == Flatten([k \in 1..Len(pages) |-> pages[k].Paragraphs])
PagesBlocks(pages) == Flatten([k \in 1..Len(pages) |-> pages[k].Blocks])

\* the body of "for _, paragraph := range page.Paragraphs" of CallDocumentAI
DocumentParagraph(paragraph, text) ==
    IF ~paragraph.Layout.present THEN [panic |-> TRUE]
    ELSE IF ~paragraph.Layout.TextAnchor.present THEN [panic |-> TRUE]
    ELSE LET t == GetTextFromSegments(paragraph.Layout.TextAnchor.TextSegments, text) IN
         IF t.panic THEN [panic |-> TRUE]
         ELSE [panic |-> FALSE,
               textBlock |-> [BoundingBox |-> GetLayoutBoundingBox(paragraph.Layout.BoundingPoly),
                              Confidence  |-> paragraph.Layout.Confidence,
                              Orientation |-> GetLayoutOrientation(paragraph.Layout.BoundingPoly),
                              Text        |-> t.text]]

RECURSIVE DocumentParagraphs(_, _)
DocumentParagraphs(paragraphs, text) ==
    IF paragraphs = <<>> THEN [panic |-> FALSE, blocks |-> <<>>]
    ELSE LET b == DocumentParagraph(Head(paragraphs), text) IN
         IF b.panic THEN [panic |-> TRUE, blocks |-> <<>>]
         ELSE LET rest == DocumentParagraphs(Tail(paragraphs), text) IN
              IF rest.panic THEN rest
              ELSE [panic |-> FALSE, blocks |-> <<b.textBlock>> \o rest.blocks]

CallDocumentAI(info, reply) ==
    IF reply.err THEN [kind |-> "err", info |-> info]
    ELSE IF ~reply.response.present THEN [kind |-> "ok", info |-> info]
    ELSE IF ~reply.response.Document.present THEN [kind |-> "panic", info |-> info]
    ELSE LET text == reply.response.Document.Text
             ps == DocumentParagraphs(PagesParagraphs(reply.response.Document.Pages), text)
         IN IF ps.panic THEN [kind |-> "panic", info |-> info]
            ELSE [kind |-> "ok",
                  info |-> [info EXCEPT !.Text = text,
                                        !.Paragraphs = info.Paragraphs \o ps.blocks]]

\* words[w] = strings.Join(symbols, "") of CallVisionAPI
WordText(word) == Join([s \in 1..Len(word.Symbols) |-> word.Symbols[s].Text], <<>>)

\* the body of "for _, paragraph := range block.Paragraphs" of CallVisionAPI
VisionParagraph(paragraph) ==
    [BoundingBox |-> GetBoundingBox(paragraph.BoundingBox),
     Confidence  |-> paragraph.Confidence,
     Orientation |-> GetOrientation(paragraph.BoundingBox),
     Text        |-> Join([k \in 1..Len(paragraph.Words) |-> WordText(paragraph.Words[k])],
                          <<" ">>)]

BlocksParagraphs(blocks) == Flatten([k \in 1..Len(blocks) |-> blocks[k].Paragraphs])

\* a slip the call could have: an absent response taken for a failure
CallVisionAPI_NilResponseFails(info, reply) ==
    IF reply.err \/ ~reply.response.present THEN [kind |-> "err", info |-> info]
    ELSE LET ps == BlocksParagraphs(PagesBlocks(reply.response.Pages)) IN
         [kind |-> "ok",
          info |-> [info EXCEPT !.Text = reply.response.Text,
                                !.Paragraphs = info.Paragraphs \o
                                    [k \in 1..Len(ps) |-> VisionParagraph(ps[k])]]]

CallVisionAPI(info, reply) ==
    IF reply.err THEN [kind |-> "err", info |-> info]
    ELSE IF ~reply.response.present THEN [kind |-> "ok", info |-> info]
    ELSE LET ps == BlocksParagraphs(PagesBlocks(reply.response.Pages)) IN
         [kind |-> "ok",
          info |-> [info EXCEPT !.Text = reply.response.Text,
                                !.Paragraphs = info.Paragraphs \o
                                    [k \in 1..Len(ps) |-> VisionParagraph(ps[k])]]]

\* CallVisionAPI of vision-api.go: ImageInfo is [Filename, Size, Text, Paragraphs,
\* Words] and an Annotation is [BoundingPoly, BoundingBox, Orientation, Confidence, Text]
NewAnnotation(node, text) ==
    [BoundingPoly |-> node.BoundingBox,
     BoundingBox  |-> SetRectangle(node.BoundingBox),
     Orientation  |-> SetOrientation(node.BoundingBox),
     Confidence   |-> node.Confidence,
     Text         |-> text]

\* the body of "for w, word := range paragraph.Words": newWord
NewWord(word) == NewAnnotation(word, WordText(word))

\* newParagraph, after the loop over the words
NewParagraph(paragraph) ==
    NewAnnotation(paragraph,
                  Join([k \in 1..Len(paragraph.Words) |-> WordText(paragraph.Words[k])], <<" ">>))

CallVisionAPI_VisionAPI(info, reply) ==
    IF reply.err THEN [kind |-> "err", info |-> info]
    ELSE IF ~reply.response.present THEN [kind |-> "ok", info |-> info]
    ELSE LET ps == BlocksParagraphs(PagesBlocks(reply.response.Pages)) IN
         [kind |-> "ok",
          info |-> [info EXCEPT
                      !.Text = reply.response.Text,
                      !.Words = info.Words \o
                          Flatten([k \in 1..Len(ps) |->
                                     [n \in 1..Len(ps[k].Words) |-> NewWord(ps[k].Words[n])]]),
                      !.Paragraphs = info.Paragraphs \o
                          [k \in 1..Len(ps) |-> NewParagraph(ps[k])]]]

---------------------------------------------------------------------------
(* Serialization.  json.Marshal fails on a float that is NaN or infinite     *)
(* (a Confidence), and on nothing else these structures hold.  The encoding   *)
(* is a sequence of tokens in the order json.Marshal writes the members (a    *)
(* map by sorted key, a struct by field): one token per scalar member, one    *)
(* per character of the text, one per paragraph.                               *)

NaN == "NaN"

Unsupported(info) == \E k \in 1..Len(info.Paragraphs) : info.Paragraphs[k].Confidence = NaN

Chars(text) == [k \in 1..Len(text) |-> [t |-> "text", v |-> text[k]]]

\* the map with the keys filename, paragraphs (confidence and text of each), size, text
GetCompactJSON(info) ==
    IF Unsupported(info) THEN [err |-> TRUE, data |-> <<>>]
    ELSE [err |-> FALSE,
          data |-> <<[t |-> "filename", v |-> info.Filename]>>
                   \o [k \in 1..Len(info.Paragraphs) |->
                         [t |-> "paragraphs", v |-> [confidence |-> info.Paragraphs[k].Confidence,
                                                     text |-> info.Paragraphs[k].Text]]]
                   \o <<[t |-> "size", v |-> info.Size]>>
                   \o Chars(info.Text)]

\* the struct ImageInfo: filename, size, mime_type, text, paragraphs (every field of each)
GetFullJSON(info) ==
    IF Unsupported(info) THEN [err |-> TRUE, data |-> <<>>]
    ELSE [err |-> FALSE,
          data |-> <<[t |-> "filename", v |-> info.Filename],
                     [t |-> "size", v |-> info.Size],
                     [t |-> "mime_type", v |-> info.MimeType]>>
                   \o Chars(info.Text)
                   \o [k \in 1..Len(info.Paragraphs) |->
                         [t |-> "paragraphs", v |-> info.Paragraphs[k]]]]

NL == [t |-> "nl", v |-> "\n"]

---------------------------------------------------------------------------
(* The output stream: os.File under a bufio.Writer (Go standard library).    *)
(* A stream is [buf, err, disk, space, ret]: the writer's buffer and sticky   *)
(* error, the file's bytes, the bytes the file can still take, and whether    *)
(* the last call returned an error.  A write that does not fit writes what    *)
(* fits and fails, as a write to a full disk does; any first failure of the   *)
(* file, at any offset, is one value of space.                                *)

\* os.File.Write
FileWrite(fdisk, fspace, p) ==
    IF fspace = -1 \/ Len(p) <= fspace
    THEN [disk |-> fdisk \o p,
          space |-> IF fspace = -1 THEN -1 ELSE fspace - Len(p),
          n |-> Len(p), err |-> FALSE]
    ELSE [disk |-> fdisk \o SubSeq(p, 1, fspace), space |-> 0, n |-> fspace, err |-> TRUE]

\* bufio.Writer.Flush
Flush(s) ==
    IF s.err THEN [s EXCEPT !.ret = TRUE]
    ELSE IF s.buf = <<>> THEN [s EXCEPT !.ret = FALSE]
    ELSE LET r == FileWrite(s.disk, s.space, s.buf) IN
         IF r.err
         THEN [buf |-> SubSeq(s.buf, r.n + 1, Len(s.buf)), err |-> TRUE,
               disk |-> r.disk, space |-> r.space, ret |-> TRUE]
         ELSE [buf |-> <<>>, err |-> FALSE, disk |-> r.disk, space |-> r.space,
               ret |-> FALSE]

\* bufio.Writer.Write and WriteString (os.File is an io.StringWriter): what does not
\* fit the buffer goes to the file directly when the buffer is empty, and fills and
\* flushes the buffer otherwise
RECURSIVE BufWrite(_, _)
BufWrite(s, p) ==
    IF Len(p) > BufSize - Len(s.buf) /\ ~s.err
    THEN IF s.buf = <<>>
         THEN LET r == FileWrite(s.disk, s.space, p) IN
              BufWrite([buf |-> s.buf, err |-> r.err, disk |-> r.disk, space |-> r.space,
                        ret |-> r.err],
                       SubSeq(p, r.n + 1, Len(p)))
         ELSE LET n == BufSize - Len(s.buf) IN
              BufWrite(Flush([s EXCEPT !.buf = s.buf \o SubSeq(p, 1, n)]),
                       SubSeq(p, n + 1, Len(p)))
    ELSE IF s.err THEN [s EXCEPT !.ret = TRUE]
    ELSE [s EXCEPT !.buf = s.buf \o p, !.ret = FALSE]

\* bufio.NewWriter(f)
NewWriter == [buf |-> <<>>, err |-> FALSE]

Stream == [buf |-> w.buf, err |-> w.err, disk |-> disk, space |-> space, ret |-> FALSE]

---------------------------------------------------------------------------
(* File collection.  filepath.Glob answers [globErr, files]; a file is        *)
(* [statErr, isDir, ext, size], named by its place in the answer.             *)

mimeTypes ==
    (".bmp" :> "image/bmp") @@ (".gif" :> "image/gif") @@ (".jpg" :> "image/jpeg") @@
    (".jpeg" :> "image/jpeg") @@ (".pdf" :> "application/pdf") @@ (".png" :> "image/png") @@
    (".tif" :> "image/tiff") @@ (".tiff" :> "image/tiff") @@ (".webp" :> "image/webp")

\* a slip the lookup could have: the case of the extension is not looked at
MimeTypeOf_AnyCase(ext) ==
    IF ext = ".JPG" THEN mimeTypes[".jpg"]
    ELSE IF ext \in DOMAIN mimeTypes THEN mimeTypes[ext] ELSE ""

\* mimeTypes[filepath.Ext(filename)]: "" for a key the map does not hold
MimeTypeOf(ext) == IF ext \in DOMAIN mimeTypes THEN mimeTypes[ext] ELSE ""

\* a slip the loop could have: the extension is looked at before the metadata is read
RECURSIVE PopulateLoop_ExtensionFirst(_, _, _)
PopulateLoop_ExtensionFirst(files, k, images) ==
    IF k > Len(files) THEN [err |-> "", Images |-> images]
    ELSE IF MimeTypeOf(files[k].ext) = "" THEN PopulateLoop_ExtensionFirst(files, k + 1, images)
    ELSE IF files[k].statErr THEN [err |-> "Failed to get file info", Images |-> images]
    ELSE IF files[k].isDir THEN PopulateLoop_ExtensionFirst(files, k + 1, images)
    ELSE PopulateLoop_ExtensionFirst(files, k + 1,
                      Append(images, [Filename |-> k, Size |-> files[k].size,
                                      MimeType |-> MimeTypeOf(files[k].ext),
                                      Text |-> NoText, Paragraphs |-> <<>>]))

\* the loop "for _, filename := range matches" of PopulateImages, from match k on
RECURSIVE PopulateLoop(_, _, _)
PopulateLoop(files, k, images) ==
    IF k > Len(files) THEN [err |-> "", Images |-> images]
    ELSE IF files[k].statErr THEN [err |-> "Failed to get file info", Images |-> images]
    ELSE IF files[k].isDir \/ MimeTypeOf(files[k].ext) = ""
         THEN PopulateLoop(files, k + 1, images)
    ELSE PopulateLoop(files, k + 1,
                      Append(images, [Filename |-> k, Size |-> files[k].size,
                                      MimeType |-> MimeTypeOf(files[k].ext),
                                      Text |-> NoText, Paragraphs |-> <<>>]))

PopulateImages(glob) ==
    IF glob.globErr THEN [err |-> "Glob Failed", Images |-> <<>>]
    ELSE PopulateLoop(glob.files, 1, <<>>)

---------------------------------------------------------------------------
(* The ignore list (vision-api.go).  File names, patterns and file contents   *)
(* are sequences of characters.                                               *)

\* filepath.Separator
Separator == "/"

\* the place of the "]" that closes the class pattern begins with, 0 when the class
\* is malformed: it has no member, or begins with "]" or "-", or is not closed
ClassStart(pattern) == IF Len(pattern) >= 2 /\ pattern[2] = "^" THEN 3 ELSE 2
ClassEnd(pattern) ==
    LET from == ClassStart(pattern)
        ends == {k \in (from + 1)..Len(pattern) : pattern[k] = "]"} IN
    IF Len(pattern) < from \/ pattern[from] \in {"]", "-"} \/ ends = {} THEN 0
    ELSE CHOOSE k \in ends : \A m \in ends : k <= m

\* filepath.ErrBadPattern: a class that is malformed, a backslash that escapes nothing
RECURSIVE BadPattern(_)
BadPattern(pattern) ==
    IF pattern = <<>> THEN FALSE
    ELSE IF pattern[1] = "\\"
         THEN Len(pattern) < 2 \/ BadPattern(SubSeq(pattern, 3, Len(pattern)))
    ELSE IF pattern[1] = "["
         THEN ClassEnd(pattern) = 0
              \/ BadPattern(SubSeq(pattern, ClassEnd(pattern) + 1, Len(pattern)))
    ELSE BadPattern(Tail(pattern))

\* a well-formed pattern against a name: "*" any sequence of non-separators, "?" one
\* non-separator, a class of listed characters (no range is drawn), an escaped or a
\* plain character; the whole name must be consumed
RECURSIVE MatchHere(_, _)
MatchHere(pattern, name) ==
    IF pattern = <<>> THEN name = <<>>
    ELSE IF pattern[1] = "*"
         THEN \E k \in 0..Len(name) :
                 /\ \A m \in 1..k : name[m] # Separator
                 /\ MatchHere(Tail(pattern), SubSeq(name, k + 1, Len(name)))
    ELSE IF name = <<>> THEN FALSE
    ELSE IF pattern[1] = "?"
         THEN name[1] # Separator /\ MatchHere(Tail(pattern), Tail(name))
    ELSE IF pattern[1] = "["
         THEN LET from == ClassStart(pattern)
                  close == ClassEnd(pattern)
                  members == {pattern[k] : k \in from..(close - 1)} IN
              /\ (name[1] \in members) # (from = 3)
              /\ MatchHere(SubSeq(pattern, close + 1, Len(pattern)), Tail(name))
    ELSE IF pattern[1] = "\\"
         THEN name[1] = pattern[2] /\ MatchHere(SubSeq(pattern, 3, Len(pattern)), Tail(name))
    ELSE name[1] = pattern[1] /\ MatchHere(Tail(pattern), Tail(name))

\* filepath.Match(pattern, name)
Match(pattern, name) ==
    IF BadPattern(pattern) THEN [matches |-> FALSE, err |-> TRUE]
    ELSE [matches |-> MatchHere(pattern, name), err |-> FALSE]

\* a slip the scan could have: a malformed pattern ends it
RECURSIVE IsIgnorableFile_StopAtBadPattern(_, _)
IsIgnorableFile_StopAtBadPattern(fileName, ignoreList) ==
    IF ignoreList = <<>> THEN FALSE
    ELSE LET m == Match(Head(ignoreList), fileName) IN
         IF m.err THEN FALSE
         ELSE IF m.matches THEN TRUE
         ELSE IsIgnorableFile_StopAtBadPattern(fileName, Tail(ignoreList))

RECURSIVE IsIgnorableFile(_, _)
IsIgnorableFile(fileName, ignoreList) ==
    IF ignoreList = <<>> THEN FALSE
    ELSE LET m == Match(Head(ignoreList), fileName) IN
         IF m.err THEN IsIgnorableFile(fileName, Tail(ignoreList))
         ELSE IF m.matches THEN TRUE
         ELSE IsIgnorableFile(fileName, Tail(ignoreList))

\* regexp.MustCompile(`\r?\n`).Split(contents, -1), cur being the piece begun
RECURSIVE SplitLines(_, _)
SplitLines(contents, cur) ==
    IF contents = <<>> THEN <<cur>>
    ELSE IF contents[1] = "\n"
         THEN <<cur>> \o SplitLines(Tail(contents), <<>>)
    ELSE IF contents[1] = "\r" /\ Len(contents) >= 2 /\ contents[2] = "\n"
         THEN <<cur>> \o SplitLines(SubSeq(contents, 3, Len(contents)), <<>>)
    ELSE SplitLines(Tail(contents), Append(cur, contents[1]))

\* strings.TrimSpace
WhiteSpace == {" ", "\t", "\n", "\r"}
RECURSIVE TrimLeft(_)
TrimLeft(str) ==
    IF str # <<>> /\ str[1] \in WhiteSpace THEN TrimLeft(Tail(str)) ELSE str
RECURSIVE TrimRight(_)
TrimRight(str) ==
    IF str # <<>> /\ str[Len(str)] \in WhiteSpace
    THEN TrimRight(SubSeq(str, 1, Len(str) - 1)) ELSE str
TrimSpace(str) == TrimRight(TrimLeft(str))

\* the loop "for _, g := range globs" of handleIgnoreFile
RECURSIVE CleanGlobs(_)
CleanGlobs(globs) ==
    IF globs = <<>> THEN <<>>
    ELSE LET str == TrimSpace(Head(globs)) IN
         IF Len(str) > 0 THEN <<str>> \o CleanGlobs(Tail(globs))
         ELSE CleanGlobs(Tail(globs))

\* a slip the loop could have: the pieces appended as they are, untrimmed
handleIgnoreFile_Untrimmed(file) ==
    IF file.err THEN <<>>
    ELSE SelectSeq(SplitLines(file.contents, <<>>), LAMBDA g : Len(TrimSpace(g)) > 0)

\* file is the io.Reader: [err, contents], err for a failure of io.ReadAll
handleIgnoreFile(file) ==
    IF file.err THEN <<>>
    ELSE CleanGlobs(SplitLines(file.contents, <<>>))

\* os.Open answers [notExist, err, file]
GetIgnoreList(opened) ==
    IF opened.notExist \/ opened.err THEN <<>>
    ELSE handleIgnoreFile(opened.file)

\* PopulateImages of vision-api.go: the loop over the matches, from match k on; a file
\* is [name, statErr, isDir, size]
RECURSIVE PopulateLoop_VisionAPI(_, _, _, _)
PopulateLoop_VisionAPI(files, ignoreThis, k, images) ==
    IF k > Len(files) THEN [err |-> "", Images |-> images]
    ELSE IF IsIgnorableFile(files[k].name, ignoreThis)
         THEN PopulateLoop_VisionAPI(files, ignoreThis, k + 1, images)
    ELSE IF files[k].statErr THEN [err |-> "Failed to get file info", Images |-> images]
    ELSE IF files[k].isDir THEN PopulateLoop_VisionAPI(files, ignoreThis, k + 1, images)
    ELSE PopulateLoop_VisionAPI(files, ignoreThis, k + 1,
                                Append(images, [Filename |-> k, Size |-> files[k].size,
                                                Text |-> NoText, Paragraphs |-> <<>>,
                                                Words |-> <<>>]))

PopulateImages_VisionAPI(glob, ignoreThis) ==
    IF glob.globErr THEN [err |-> "Glob Failed", Images |-> <<>>]
    ELSE PopulateLoop_VisionAPI(glob.files, ignoreThis, 1, <<>>)

\* filepath.Ext: the suffix of the last path element from its last dot on
RECURSIVE Ext(_)
Ext(path) ==
    IF path = <<>> \/ path[Len(path)] = Separator THEN <<>>
    ELSE IF path[Len(path)] = "." THEN <<".">>
    ELSE LET e == Ext(SubSeq(path, 1, Len(path) - 1)) IN
         IF e = <<>> THEN <<>> ELSE Append(e, path[Len(path)])

---------------------------------------------------------------------------
(* What the outside world can answer *)

SeqsUpTo(S, n) == UNION {[1..k -> S] : k \in 0..n}

\* files the glob can return: an image, a document, an extension in the wrong case,
\* a directory (named like an image), a file whose metadata cannot be read
GlobFiles ==
    {[statErr |-> FALSE, isDir |-> FALSE, ext |-> ".jpg", size |-> 10],
     [statErr |-> FALSE, isDir |-> FALSE, ext |-> ".JPG", size |-> 10],
     [statErr |-> FALSE, isDir |-> TRUE,  ext |-> ".jpg", size |-> 0],
     [statErr |-> TRUE,  isDir |-> FALSE, ext |-> ".jpg", size |-> 0]}

GlobResults ==
    {[globErr |-> TRUE, files |-> <<>>]} \cup
    {[globErr |-> FALSE, files |-> fs] : fs \in SeqsUpTo(GlobFiles, MaxMatches)}

NoGlob == [globErr |-> FALSE, files |-> <<>>]

ErrReply == [err |-> TRUE, response |-> [present |-> FALSE]]
NilReply == [err |-> FALSE, response |-> [present |-> FALSE]]

Box == Poly(<<Vertex(0, 0), Vertex(10, 0), Vertex(10, 5), Vertex(0, 5)>>)

\* Document AI: a document, a page, a paragraph with its layout and text anchor
Document(text, pages) == [present |-> TRUE, Text |-> text, Pages |-> pages]
DocPage(paragraphs) == [Paragraphs |-> paragraphs]
Anchored(confidence, segments) ==
    [Layout |-> [present |-> TRUE, BoundingPoly |-> Box, Confidence |-> confidence,
                 TextAnchor |-> [present |-> TRUE, TextSegments |-> segments]]]
NoAnchor == [Layout |-> [present |-> TRUE, BoundingPoly |-> Box, Confidence |-> "0.9",
                         TextAnchor |-> [present |-> FALSE]]]
NoLayout == [Layout |-> [present |-> FALSE]]
DocReply(doc) == [err |-> FALSE, response |-> [present |-> TRUE, Document |-> doc]]
OnePar(text, paragraph) == DocReply(Document(text, <<DocPage(<<paragraph>>)>>))

ABC == <<"A", "B", "C">>

DocumentAIReplies ==
    {ErrReply, NilReply,
     DocReply(Document(<<"A", "B">>, <<>>)),
     OnePar(ABC, Anchored("0.9", <<Segment(0, 3)>>)),
     OnePar(ABC, Anchored(NaN, <<Segment(0, 3)>>)),
     DocReply([present |-> FALSE]),
     OnePar(ABC, NoLayout),
     OnePar(ABC, NoAnchor),
     OnePar(ABC, Anchored("0.9", <<Segment(0, 0)>>)),
     OnePar(ABC, Anchored("0.9", <<Segment(2, 2)>>)),
     OnePar(ABC, Anchored("0.9", <<Segment(0, 5)>>))}

\* Vision API: an annotation of one page, one block, one paragraph of two words
VisionWord(text) == [Symbols |-> [k \in 1..Len(text) |-> [Text |-> <<text[k]>>]]]
Annotation(confidence) ==
    [present |-> TRUE, Text |-> <<"A">>,
     Pages |-> <<[Blocks |-> <<[Paragraphs |->
                  <<[BoundingBox |-> Box, Confidence |-> confidence,
                     Words |-> <<VisionWord(<<"A">>), VisionWord(<<"B", "C">>)>>]>>]>>]>>]

VisionAPIReplies ==
    {ErrReply, NilReply,
     [err |-> FALSE, response |-> [present |-> TRUE, Text |-> NoText, Pages |-> <<>>]],
     [err |-> FALSE, response |-> Annotation("0.9")],
     [err |-> FALSE, response |-> Annotation(NaN)]}

\* a response CallDocumentAI cannot decode: no document, a paragraph without layout or
\* text anchor, a segment whose indices do not address the document text
BadSegment(seg, text) ==
    seg.EndIndex = 0 \/ seg.EndIndex - 1 < seg.StartIndex \/ seg.EndIndex - 1 > Len(text)
BadParagraph(paragraph, text) ==
    \/ ~paragraph.Layout.present
    \/ ~paragraph.Layout.TextAnchor.present
    \/ \E k \in 1..Len(paragraph.Layout.TextAnchor.TextSegments) :
          BadSegment(paragraph.Layout.TextAnchor.TextSegments[k], text)
Malformed(reply) ==
    /\ ~reply.err
    /\ reply.response.present
    /\ \/ ~reply.response.Document.present
       \/ LET ps == PagesParagraphs(reply.response.Document.Pages) IN
          \E k \in 1..Len(ps) : BadParagraph(ps[k], reply.response.Document.Text)

---------------------------------------------------------------------------
(* main and DetectImageText *)

\* what the output file held before the run
OldDisk == <<[t |-> "old", v |-> "old"]>>

pureIdle == fn = "none" /\ arg = <<>> /\ res = <<>>

Init ==
    /\ pc = "main"
    /\ inputPath \in {"", "in/*"}
    /\ outputFile \in {"", "out.json"}
    /\ outputFull \in BOOLEAN
    /\ predictionEndpoint \in {"", "https://host/v1/projects/p:process"}
    /\ matches = NoGlob
    /\ Images = <<>>
    /\ i = 0
    /\ errorCount = 0
    /\ jsonData = <<>>
    /\ disk = OldDisk
    /\ space \in -1..MaxSpace
    /\ w = NewWriter
    /\ createCount = 0
    /\ exitStatus = -1
    /\ response = NilReply
    /\ called = <<>>
    /\ failed = {}
    /\ good = <<>>
    /\ pureIdle

\* main: "if *inputPath == "" || *outputFile == """
\* a slip: both flags must be missing
RequiredFlagMissing_Both == inputPath = "" /\ outputFile = ""

RequiredFlagMissing == inputPath = "" \/ outputFile = ""

\* os.Exit(status)
Exit(status) == pc' = "exit" /\ exitStatus' = status

\* main: validate the required flags
Main ==
    /\ pc = "main"
    /\ IF RequiredFlagMissing THEN Exit(1) ELSE pc' = "populate" /\ exitStatus' = exitStatus
    /\ UNCHANGED <<inputPath, outputFile, outputFull, predictionEndpoint, matches, Images, i,
                   errorCount, jsonData, disk, space, w, createCount, response,
                   called, failed, good, pureVars>>

\* main: PopulateImages, and the check that images were found
Populate ==
    /\ pc = "populate"
    /\ \E glob \in GlobResults :
         LET r == PopulateImages(glob) IN
         /\ matches' = glob
         /\ Images' = r.Images
         /\ IF r.err # "" THEN Exit(1)
            ELSE IF Len(r.Images) = 0 THEN Exit(1)
            ELSE pc' = "create" /\ exitStatus' = exitStatus
    /\ UNCHANGED <<inputPath, outputFile, outputFull, predictionEndpoint, i, errorCount, jsonData, disk, space, w, createCount, response, called, failed, good,
                   pureVars>>

\* DetectImageText: os.Create fails, the error reaches main
CreateFails ==
    /\ pc = "create"
    /\ Exit(1)
    /\ UNCHANGED <<inputPath, outputFile, outputFull, predictionEndpoint, matches, Images, i,
                   errorCount, jsonData, disk, space, w, createCount, response,
                   called, failed, good, pureVars>>

\* DetectImageText: os.Create truncates the file; the writer and the counter start
Create ==
    /\ pc = "create"
    /\ disk' = <<>>
    /\ createCount' = createCount + 1
    /\ w' = NewWriter
    /\ errorCount' = 0
    /\ i' = 1
    /\ pc' = "recognize"
    /\ UNCHANGED <<inputPath, outputFile, outputFull, predictionEndpoint, matches, Images,
                   jsonData, space, exitStatus, response, called, failed, good,
                   pureVars>>

\* "errorCount++; continue" of the loop, for image i
CountAndContinue ==
    /\ errorCount' = errorCount + 1
    /\ failed' = failed \cup {i}
    /\ i' = i + 1
    /\ pc' = "recognize"

\* the recognition call of the loop body
Recognize ==
    /\ pc = "recognize"
    /\ i <= Len(Images)
    /\ \E reply \in (IF predictionEndpoint = "" THEN VisionAPIReplies ELSE DocumentAIReplies) :
         LET r == IF predictionEndpoint = "" THEN CallVisionAPI(Images[i], reply)
                  ELSE CallDocumentAI(Images[i], reply) IN
         /\ called' = Append(called, i)
         /\ CASE r.kind = "err" ->
                   /\ CountAndContinue
                   /\ UNCHANGED <<Images, exitStatus>>
              [] r.kind = "panic" ->
                   /\ Exit(2)
                   /\ failed' = failed \cup {i}
                   /\ UNCHANGED <<Images, i, errorCount>>
              [] OTHER ->
                   /\ Images' = [Images EXCEPT ![i] = r.info]
                   /\ pc' = "marshal"
                   /\ UNCHANGED <<i, errorCount, failed, exitStatus>>
         /\ response' = reply
    /\ UNCHANGED <<inputPath, outputFile, outputFull, predictionEndpoint, matches, jsonData, disk, space, w, createCount, good, pureVars>>

\* GetFullJSON or GetCompactJSON of the loop body
Marshal ==
    /\ pc = "marshal"
    /\ LET j == IF outputFull THEN GetFullJSON(Images[i]) ELSE GetCompactJSON(Images[i]) IN
       IF j.err THEN CountAndContinue /\ jsonData' = jsonData
       ELSE /\ jsonData' = j.data
            /\ pc' = "write"
            /\ UNCHANGED <<i, errorCount, failed>>
    /\ UNCHANGED <<inputPath, outputFile, outputFull, predictionEndpoint, matches, Images, disk, space, w, createCount, exitStatus, response, called, good,
                   pureVars>>

\* the stream after a call, stored back
StreamBecomes(s) ==
    /\ w' = [buf |-> s.buf, err |-> s.err]
    /\ disk' = s.disk
    /\ space' = s.space

\* w.Write(jsonData)
WriteJSON ==
    /\ pc = "write"
    /\ LET s == BufWrite(Stream, jsonData) IN
       /\ StreamBecomes(s)
       /\ IF s.ret THEN CountAndContinue
          ELSE pc' = "newline" /\ UNCHANGED <<i, errorCount, failed>>
    /\ UNCHANGED <<inputPath, outputFile, outputFull, predictionEndpoint, matches, Images, jsonData, createCount, exitStatus, response, called, good, pureVars>>

\* w.WriteString("\n")
WriteNewline ==
    /\ pc = "newline"
    /\ LET s == BufWrite(Stream, <<NL>>) IN
       /\ StreamBecomes(s)
       /\ IF s.ret THEN CountAndContinue
          ELSE pc' = "flush" /\ UNCHANGED <<i, errorCount, failed>>
    /\ UNCHANGED <<inputPath, outputFile, outputFull, predictionEndpoint, matches, Images, jsonData, createCount, exitStatus, response, called, good, pureVars>>

\* w.Flush(), its result dropped, and the end of the loop body
FlushLine ==
    /\ pc = "flush"
    /\ LET s == Flush(Stream) IN
       /\ StreamBecomes(s)
       /\ failed' = IF s.ret THEN failed \cup {i} ELSE failed
       /\ good' = IF s.ret THEN good ELSE good \o jsonData \o <<NL>>
    /\ i' = i + 1
    /\ pc' = "recognize"
    /\ UNCHANGED <<inputPath, outputFile, outputFull, predictionEndpoint, matches, Images, jsonData, errorCount, createCount, exitStatus, response, called,
                   pureVars>>

\* a slip: a single failure is let through
ReturnStatus_MoreThanOne == IF errorCount > 1 THEN 1 ELSE 0

\* the status of the run once the loop has ended: DetectImageText returns an error
\* when errorCount > 0, and main exits 1 on an error
ReturnStatus == IF errorCount > 0 THEN 1 ELSE 0

\* the end of the loop: DetectImageText returns, main exits
Return ==
    /\ pc = "recognize"
    /\ i > Len(Images)
    /\ Exit(ReturnStatus)
    /\ UNCHANGED <<inputPath, outputFile, outputFull, predictionEndpoint, matches, Images, i,
                   errorCount, jsonData, disk, space, w, createCount, response,
                   called, failed, good, pureVars>>

Next ==
    \/ Main
    \/ Populate
    \/ CreateFails
    \/ Create
    \/ Recognize
    \/ Marshal
    \/ WriteJSON
    \/ WriteNewline
    \/ FlushLine
    \/ Return

Spec == Init /\ [][Next]_vars

---------------------------------------------------------------------------
(* The pure functions, applied to drawn inputs.  main does not run here.     *)

mainParked ==
    /\ pc = "pure"
    /\ inputPath = "" /\ outputFile = "" /\ outputFull = FALSE /\ predictionEndpoint = ""
    /\ matches = NoGlob /\ Images = <<>> /\ i = 0 /\ errorCount = 0 /\ jsonData = <<>>
    /\ disk = OldDisk /\ space = -1 /\ w = NewWriter /\ createCount = 0 /\ exitStatus = -1
    /\ response = NilReply /\ called = <<>> /\ failed = {} /\ good = <<>>

\* coordinates drawn for a vertex: int32 extremes and ordinary values
XCoords == {Minimal, 0, 10, Maximal}
YCoords == {Minimal, 0, 5, Maximal}
Vertices == {Vertex(x, y) : x \in XCoords, y \in YCoords}
Polygons == {NilPoly} \cup {Poly(vs) : vs \in SeqsUpTo(Vertices, MaxVertices)}

InitGeometry == mainParked /\ fn = "none" /\ arg \in Polygons /\ res = <<>>

Apply(name, result) ==
    /\ pc = "pure"
    /\ fn = "none"
    /\ fn' = name
    /\ res' = result
    /\ UNCHANGED <<arg, mainVars>>

ApplyGetBoundingBox == Apply("GetBoundingBox", GetBoundingBox(arg))
ApplyGetLayoutBoundingBox == Apply("GetLayoutBoundingBox", GetLayoutBoundingBox(arg))
ApplySetRectangle == Apply("SetRectangle", SetRectangle(arg))
ApplyGetOrientation == Apply("GetOrientation", GetOrientation(arg))
ApplyGetLayoutOrientation == Apply("GetLayoutOrientation", GetLayoutOrientation(arg))
ApplySetOrientation == Apply("SetOrientation", SetOrientation(arg))

NextGeometry ==
    \/ ApplyGetBoundingBox
    \/ ApplyGetLayoutBoundingBox
    \/ ApplySetRectangle
    \/ ApplyGetOrientation
    \/ ApplyGetLayoutOrientation
    \/ ApplySetOrientation

SpecGeometry == InitGeometry /\ [][NextGeometry]_vars

\* document texts: the prefixes of the alphabet up to MaxText characters, and "ABCDE"
Alphabet == <<"A", "B", "C", "D", "E">>
Texts == {SubSeq(Alphabet, 1, n) : n \in 0..Min(MaxText, Len(Alphabet))} \cup {Alphabet}
Segments == {Segment(s, e) : s \in 0..MaxText, e \in 0..(MaxText + 2)}

InitSegments ==
    /\ mainParked
    /\ fn = "none"
    /\ arg \in [text : Texts, segments : SeqsUpTo(Segments, MaxSegments)]
    /\ res = <<>>

ApplyGetTextFromSegments ==
    Apply("GetTextFromSegments", GetTextFromSegments(arg.segments, arg.text))

NextSegments == ApplyGetTextFromSegments

SpecSegments == InitSegments /\ [][NextSegments]_vars

\* hosts url.ParseRequestURI can yield: none (a URI that is a path only), a name, an
\* IPv4 address, an IPv6 literal, each without and with a port
HostNames == {<<>>, <<"h">>, <<"1", ".", "2">>, <<"[", ":", ":", "1", "]">>}
HostPorts == {<<>>, <<":", "8", "0">>}
Hosts == {n \o p : n \in HostNames, p \in HostPorts} \ {<<":", "8", "0">>}

\* paths: up to MaxPathPieces pieces, empty or beginning with a slash
PathPieces == {<<"/", "v", "1">>, ProjectsDir, <<"p">>, <<":", "p", "r", "o", "c", "e", "s", "s">>,
               <<"/", "p", "r", "o", "j", "e", "c", "t", "s">>}
Paths == {p \in {Flatten(ps) : ps \in SeqsUpTo(PathPieces, MaxPathPieces)} :
              p = <<>> \/ Head(p) = "/"}

InitEndpoint ==
    /\ mainParked
    /\ fn = "none"
    /\ arg \in [Host : Hosts, Path : Paths]
    /\ res = <<>>

ApplyGetHostName == Apply("GetHostName", GetHostName(arg))
ApplyGetRequestName == Apply("GetRequestName", GetRequestName(arg))

NextEndpoint ==
    \/ ApplyGetHostName
    \/ ApplyGetRequestName

SpecEndpoint == InitEndpoint /\ [][NextEndpoint]_vars

\* names the glob can return and patterns the ignore file can hold
JpgName == <<"a", ".", "j", "p", "g">>
UpperName == <<"a", ".", "J", "P", "G">>
DirJpgName == <<"e", "/", "a", ".", "j", "p", "g">>
CollectNames == {JpgName, UpperName, DirJpgName}
StarJpg == <<"*", ".", "j", "p", "g">>
DirStar == <<"e", "/", "*">>
OpenClass == <<"[">>
CollectPatterns == {StarJpg, DirStar, OpenClass}

\* the extension of a name as the key of mimeTypes
ExtKey(name) ==
    LET e == Ext(name) IN
    IF e = <<".", "j", "p", "g">> THEN ".jpg"
    ELSE IF e = <<".", "J", "P", "G">> THEN ".JPG"
    ELSE "other"

\* a match is a file, a directory, or a path whose metadata cannot be read
CollectFiles ==
    {[name |-> n, ext |-> ExtKey(n), statErr |-> FALSE, isDir |-> FALSE, size |-> 10] :
        n \in CollectNames} \cup
    {[name |-> n, ext |-> ExtKey(n), statErr |-> FALSE, isDir |-> TRUE, size |-> 0] :
        n \in CollectNames} \cup
    {[name |-> n, ext |-> ExtKey(n), statErr |-> TRUE, isDir |-> FALSE, size |-> 0] :
        n \in CollectNames}

CollectGlobs ==
    {[globErr |-> TRUE, files |-> <<>>]} \cup
    {[globErr |-> FALSE, files |-> fs] : fs \in SeqsUpTo(CollectFiles, MaxCollect)}

InitCollect ==
    /\ mainParked
    /\ fn = "none"
    /\ arg \in [glob : CollectGlobs, ignoreThis : SeqsUpTo(CollectPatterns, MaxIgnore)]
    /\ res = <<>>

\* main: PopulateImages, the exit on its error and the exit when no image was found
MainPopulate(name, r) ==
    /\ pc = "pure"
    /\ fn = "none"
    /\ fn' = name
    /\ res' = r
    /\ IF r.err # "" \/ Len(r.Images) = 0 THEN Exit(1)
       ELSE pc' = "create" /\ exitStatus' = exitStatus
    /\ UNCHANGED <<arg, inputPath, outputFile, outputFull, predictionEndpoint, matches,
                   Images, i, errorCount, jsonData, disk, space, w, createCount, response,
                   called, failed, good>>

CollectImageOCR == MainPopulate("PopulateImages", PopulateImages(arg.glob))
CollectVisionAPI ==
    MainPopulate("PopulateImages_VisionAPI", PopulateImages_VisionAPI(arg.glob, arg.ignoreThis))

NextCollect ==
    \/ CollectImageOCR
    \/ CollectVisionAPI

SpecCollect == InitCollect /\ [][NextCollect]_vars

\* contents of the ignore file: every text of up to MaxContent characters of blank,
\* CR, LF and two pattern characters, and the contents of the tests
ContentChars == {" ", "\r", "\n", "a", "*"}
SomeContent ==
    <<"*", ".", "j", "p", "g", "\n", "*", ".", "b", "m", "p", "\n", ".", "/", "e", "x", "a", "m", "p", "l", "e", "s", "/", "*", "*">>
WhitespacedContent ==
    <<" ", " ", " ", "*", ".", "j", "p", "g", "\n", "*", ".", "b", "m", "p", " ", "\n", " ", " ", ".", "/", "e", "x", "a", "m", "p", "l", "e", "s", "/", "*", "*">>
CRLFContent ==
    <<"*", ".", "j", "p", "g", " ", "\r", "\n", "\r", "\n", "*", ".", "j", "p", "g", "\r", "\n">>
Contents == SeqsUpTo(ContentChars, MaxContent) \cup
                {SomeContent, WhitespacedContent, CRLFContent}

\* what os.Open answers for the ignore file, and what io.ReadAll then reads
InitIgnoreFile ==
    /\ mainParked
    /\ fn = "none"
    /\ arg \in [notExist : BOOLEAN, err : BOOLEAN,
                 file : [err : BOOLEAN, contents : Contents]]
    /\ res = <<>>

ApplyhandleIgnoreFile == Apply("handleIgnoreFile", handleIgnoreFile(arg.file))
ApplyGetIgnoreList == Apply("GetIgnoreList", GetIgnoreList(arg))

NextIgnoreFile ==
    \/ ApplyhandleIgnoreFile
    \/ ApplyGetIgnoreList

SpecIgnoreFile == InitIgnoreFile /\ [][NextIgnoreFile]_vars

\* file names and ignore patterns of the tests, and patterns with "?", a class, an
\* escape, two stars, and two that are malformed
Aloha ==
    <<"a", "l", "o", "h", "a", ".", "j", "p", "g">>
ExamplesAloha ==
    <<".", "/", "e", "x", "a", "m", "p", "l", "e", "s", "/", "a", "l", "o", "h", "a", ".", "j", "p", "g">>
AnyJpg ==
    <<"*", ".", "j", "p", "g">>
AnyBmp ==
    <<"*", ".", "b", "m", "p">>
ExamplesAnyJpg ==
    <<".", "/", "e", "x", "a", "m", "p", "l", "e", "s", "/", "*", ".", "j", "p", "g">>
ExamplesAll ==
    <<".", "/", "e", "x", "a", "m", "p", "l", "e", "s", "/", "*", "*">>
OneThenLoha ==
    <<"?", "l", "o", "h", "a", ".", "j", "p", "g">>
ClassThenLoha ==
    <<"[", "a", "b", "]", "l", "o", "h", "a", ".", "j", "p", "g">>
EscapedStar ==
    <<"\\", "*">>
TrailingBackslash ==
    <<"a", "l", "o", "h", "a", ".", "j", "p", "g", "\\">>
IgnoreNames == {Aloha, ExamplesAloha, <<"*">>, <<>>}
IgnorePatterns == {AnyJpg, AnyBmp, ExamplesAnyJpg, ExamplesAll, OneThenLoha, ClassThenLoha,
                   EscapedStar, OpenClass, TrailingBackslash}

InitIgnore ==
    /\ mainParked
    /\ fn = "none"
    /\ arg \in [fileName : IgnoreNames, ignoreList : SeqsUpTo(IgnorePatterns, MaxPatterns)]
    /\ res = <<>>

ApplyIsIgnorableFile ==
    Apply("IsIgnorableFile", IsIgnorableFile(arg.fileName, arg.ignoreList))

NextIgnore == ApplyIsIgnorableFile

SpecIgnore == InitIgnore /\ [][NextIgnore]_vars

\* annotation trees.  A shape gives, page by page and block by block, the number of
\* words of each paragraph; every paragraph and every word carries the place it has in
\* the tree as its confidence, so that it can be told from the others.
BlockShapes == {<<>>, <<2>>, <<1, 0>>}
PageShapes == SeqsUpTo(BlockShapes, MaxBlocks)
TreeShapes == SeqsUpTo(PageShapes, MaxPages)
LayoutShapes == SeqsUpTo(BlockShapes, MaxPages)

TreeWord(p, b, q, n) ==
    [BoundingBox |-> Box, Confidence |-> <<p, b, q, n>>,
     Symbols |-> IF n = 1 THEN <<[Text |-> <<"A">>], [Text |-> <<"B">>]>>
                 ELSE <<[Text |-> <<"C">>]>>]
TreeParagraph(p, b, q, words) ==
    [BoundingBox |-> Box, Confidence |-> <<p, b, q>>,
     Words |-> [n \in 1..words |-> TreeWord(p, b, q, n)]]
VisionTree(shape) ==
    [err |-> FALSE,
     response |->
       [present |-> TRUE, Text |-> <<"T">>,
        Pages |-> [p \in 1..Len(shape) |->
                     [Blocks |-> [b \in 1..Len(shape[p]) |->
                        [Paragraphs |-> [q \in 1..Len(shape[p][b]) |->
                            TreeParagraph(p, b, q, shape[p][b][q])]]]]]]]

\* Document AI: pages of paragraphs, each with as many text segments as the shape says
LayoutTree(shape) ==
    DocReply(Document(ABC,
        [p \in 1..Len(shape) |->
            DocPage([q \in 1..Len(shape[p]) |->
                        Anchored(<<p, q>>, [n \in 1..shape[p][q] |-> Segment(n - 1, n + 1)])])]))

NewImage == [Filename |-> 1, Size |-> 10, MimeType |-> "image/jpeg", Text |-> NoText,
             Paragraphs |-> <<>>]
NewImage_VisionAPI == [Filename |-> 1, Size |-> 10, Text |-> NoText, Paragraphs |-> <<>>,
                       Words |-> <<>>]

InitAnnotation ==
    /\ mainParked
    /\ fn = "none"
    /\ arg \in {[backend |-> "vision", shape |-> sh, reply |-> VisionTree(sh)] :
                    sh \in TreeShapes} \cup
                {[backend |-> "documentai", shape |-> sh, reply |-> LayoutTree(sh)] :
                    sh \in LayoutShapes}
    /\ res = <<>>

ApplyCallVisionAPI ==
    /\ arg.backend = "vision"
    /\ Apply("CallVisionAPI", CallVisionAPI(NewImage, arg.reply))
ApplyCallVisionAPI_VisionAPI ==
    /\ arg.backend = "vision"
    /\ Apply("CallVisionAPI_VisionAPI", CallVisionAPI_VisionAPI(NewImage_VisionAPI, arg.reply))
ApplyCallDocumentAI ==
    /\ arg.backend = "documentai"
    /\ Apply("CallDocumentAI", CallDocumentAI(NewImage, arg.reply))

NextAnnotation ==
    \/ ApplyCallVisionAPI
    \/ ApplyCallVisionAPI_VisionAPI
    \/ ApplyCallDocumentAI

SpecAnnotation == InitAnnotation /\ [][NextAnnotation]_vars

---------------------------------------------------------------------------
(* Claims about the batch loop (under Spec) *)

AllImages == [k \in 1..Len(Images) |-> k]

\* the run ended by main's last os.Exit, after DetectImageText returned from its loop
PassComplete == pc = "exit" /\ createCount = 1 /\ exitStatus \in {0, 1}

\* C1: every image for which the recognition call, the serialization or the write of
\* the record failed has been counted, once, in errorCount; and when the run has ended
\* after the output file was created, every collected image has been handed to the
\* backend exactly once, in collection order.
C1_EveryFailureCountedAndEveryFileAttempted ==
    createCount = 1 =>
        /\ errorCount = Cardinality(failed)
        /\ (pc = "exit" => called = AllImages)

\* C2: after a complete pass the output file holds exactly the complete lines of the
\* images whose recognition, serialization and write all succeeded, in collection
\* order, and nothing of an image that failed; the number of lines is the number of
\* images less the error count.
C2_OutputIsTheLinesOfTheSuccessfulFiles ==
    PassComplete =>
        /\ disk = good
        /\ Cardinality({k \in 1..Len(disk) : disk[k] = NL}) = Len(Images) - errorCount

\* C3: once the output file is created, the run exits with status 1 exactly when the
\* loop has ended with errorCount > 0, with status 0 exactly when it has ended with
\* errorCount = 0, and with either only after every image has been attempted.
C3_StatusFollowsErrorCount ==
    createCount = 1 =>
        /\ exitStatus = 1 <=> (pc = "exit" /\ i > Len(Images) /\ errorCount > 0)
        /\ exitStatus = 0 <=> (pc = "exit" /\ i > Len(Images) /\ errorCount = 0)
        /\ (exitStatus \in {0, 1} => called = AllImages)

\* a run of three images that ends with status 1 after one failure, two lines written
C3_Witness ==
    /\ PassComplete
    /\ Len(Images) = 3
    /\ exitStatus = 1
    /\ errorCount = 1
    /\ failed = {2}
    /\ good # <<>>
    /\ disk = good

\* discovery failed: the glob did, or the metadata of a match could not be read
DiscoveryFailed ==
    matches.globErr \/ \E k \in 1..Len(matches.files) : matches.files[k].statErr

\* discovery found nothing: no match is a file with one of the valid extensions
NothingFound ==
    ~ \E k \in 1..Len(matches.files) :
          /\ ~matches.files[k].isDir
          /\ matches.files[k].ext \in {".bmp", ".gif", ".jpg", ".jpeg", ".pdf", ".png",
                                       ".tif", ".tiff", ".webp"}

\* C4: with a required flag missing, a failed discovery or no file found, the run
\* never enters the processing phase: it can only end, with status 1, no backend
\* having been called and the output file neither created nor truncated.
C4_NoProcessingWithoutInput ==
    (inputPath = "" \/ outputFile = "" \/ DiscoveryFailed \/ NothingFound) =>
        /\ pc \in {"main", "populate", "exit"}
        /\ (pc = "exit" => exitStatus = 1)
        /\ called = <<>>
        /\ createCount = 0
        /\ disk = OldDisk

\* a run that ended because the metadata of the second match could not be read,
\* after a first match that is a valid image
C4_Witness ==
    /\ pc = "exit"
    /\ inputPath # "" /\ outputFile # ""
    /\ ~matches.globErr
    /\ Len(matches.files) >= 2
    /\ ~matches.files[1].statErr /\ ~matches.files[1].isDir /\ matches.files[1].ext = ".jpg"
    /\ matches.files[2].statErr
    /\ exitStatus = 1

\* C5: at every point of the batch (where the process may be terminated) the output
\* file holds exactly the complete lines of the records written so far, and when the
\* next recognition begins nothing is left in the writer's buffer.
C5_OnlyCompleteLinesOnDisk ==
    createCount = 1 =>
        /\ disk = good
        /\ (pc = "recognize" => w.buf = <<>>)

\* C6: a malformed Document AI response is an error of that file alone: it has been
\* counted, nothing was written for the file, and the loop has gone on to the next
\* image (the run ends only after the last one, with status 1).
C6_MalformedResponseIsRecoverable ==
    (predictionEndpoint # "" /\ called # <<>> /\ Malformed(response)) =>
        LET last == called[Len(called)] IN
        /\ last \in failed
        /\ errorCount >= 1
        /\ i = last + 1
        /\ pc \in {"recognize", "exit"}
        /\ (pc = "exit" => i > Len(Images) /\ exitStatus = 1)
        /\ disk = good

---------------------------------------------------------------------------
(* Claims about the pure functions *)

RectangleFunctions == {"GetBoundingBox", "GetLayoutBoundingBox", "SetRectangle"}
OrientationFunctions == {"GetOrientation", "GetLayoutOrientation", "SetOrientation"}

\* C7 (under SpecSegments): when every segment satisfies
\* 0 <= StartIndex <= EndIndex-1 <= len(T), the result is the concatenation, in
\* segment order, of the characters of T at the 0-based positions
\* StartIndex .. EndIndex-2; "ABCDE" with the anchor (0,3) gives "AB".
C7_SegmentsExtractStartToEndMinusTwo ==
    (/\ fn = "GetTextFromSegments"
     /\ \A k \in 1..Len(arg.segments) :
            /\ 0 <= arg.segments[k].StartIndex
            /\ arg.segments[k].StartIndex <= arg.segments[k].EndIndex - 1
            /\ arg.segments[k].EndIndex - 1 <= Len(arg.text))
    =>
    /\ ~res.panic
    /\ res.text =
         Flatten([k \in 1..Len(arg.segments) |->
                    [j \in 1..(arg.segments[k].EndIndex - 1 - arg.segments[k].StartIndex) |->
                        arg.text[arg.segments[k].StartIndex + j]]])
    /\ (arg.text = Alphabet /\ arg.segments = <<Segment(0, 3)>> => res.text = <<"A", "B">>)

\* two segments of "ABCDE" extracted and concatenated in segment order
C7_Witness ==
    /\ fn = "GetTextFromSegments"
    /\ arg.text = Alphabet
    /\ arg.segments = <<Segment(2, 4), Segment(0, 3)>>
    /\ ~res.panic
    /\ res.text = <<"C", "A", "B">>

\* C8 (under SpecGeometry): for an absent polygon and for a polygon without vertices
\* the rectangle is the zero rectangle.
C8_ZeroRectangleWhenAbsentOrEmpty ==
    (fn \in RectangleFunctions /\ (~arg.present \/ arg.Vertices = <<>>)) =>
        res = ZeroRectangle

\* C9 (under SpecGeometry): for a polygon with at least one vertex the rectangle is
\* (min x, min y, max x, max y) over the vertices: each bound is a coordinate of some
\* vertex, every vertex lies within the bounds, and Min <= Max.
C9_RectangleIsMinMaxOfVertices ==
    (fn \in RectangleFunctions /\ arg.present /\ Len(arg.Vertices) >= 1) =>
        LET vs == arg.Vertices
            ks == 1..Len(vs) IN
        /\ \A k \in ks : /\ res.Min.X <= vs[k].X /\ vs[k].X <= res.Max.X
                         /\ res.Min.Y <= vs[k].Y /\ vs[k].Y <= res.Max.Y
        /\ \E k \in ks : res.Min.X = vs[k].X
        /\ \E k \in ks : res.Min.Y = vs[k].Y
        /\ \E k \in ks : res.Max.X = vs[k].X
        /\ \E k \in ks : res.Max.Y = vs[k].Y
        /\ res.Min.X <= res.Max.X
        /\ res.Min.Y <= res.Max.Y

\* three vertices, not in increasing order, reaching to both int32 extremes
C9_Witness ==
    /\ fn = "GetLayoutBoundingBox"
    /\ arg = Poly(<<Vertex(10, Minimal), Vertex(Minimal, 5), Vertex(Maximal, 0)>>)
    /\ res = [Min |-> [X |-> Minimal, Y |-> Minimal], Max |-> [X |-> Maximal, Y |-> 5]]

\* C10 (under SpecGeometry): the orientation is 0 for an absent polygon or fewer than
\* three vertices; otherwise it is decided by the first and third vertex alone:
\* 180, 270, 90 or 0.
C10_OrientationByFirstAndThirdVertex ==
    fn \in OrientationFunctions =>
        /\ res \in {0, 90, 180, 270}
        /\ (~arg.present \/ Len(arg.Vertices) < 3) => res = 0
        /\ (arg.present /\ Len(arg.Vertices) >= 3) =>
              LET v0 == arg.Vertices[1]
                  v2 == arg.Vertices[3] IN
              res = IF v0.X > v2.X /\ v0.Y > v2.Y THEN 180
                    ELSE IF v0.X > v2.X /\ v0.Y <= v2.Y THEN 270
                    ELSE IF v0.X <= v2.X /\ v0.Y > v2.Y THEN 90
                    ELSE 0

\* the first vertex (10,0) and the third (0,5) give 270, whatever the second is
C10_Witness ==
    /\ fn = "GetOrientation"
    /\ Len(arg.Vertices) = 3
    /\ arg.Vertices[1] = Vertex(10, 0)
    /\ arg.Vertices[2] = Vertex(Maximal, Minimal)
    /\ arg.Vertices[3] = Vertex(0, 5)
    /\ res = 270

---------------------------------------------------------------------------
(* Claims about the prediction endpoint (under SpecEndpoint) *)

\* the host carries a port: a colon after the name, or after the "]" that closes an
\* IPv6 literal (what url.URL.Port() reports)
RECURSIVE LastIndex(_, _)
LastIndex(str, ch) ==
    IF str = <<>> THEN -1
    ELSE IF str[Len(str)] = ch THEN Len(str) - 1
    ELSE LastIndex(SubSeq(str, 1, Len(str) - 1), ch)

CarriesPort(host) == LastIndex(host, ":") > LastIndex(host, "]")

\* C11: the network target is the host, with ":443" appended when the host carries no
\* port and unchanged when it does; the resource name is the substring of the path
\* that begins at "/projects/" and ends before the ":" that follows it.
C11_TargetAndResourceName ==
    /\ fn = "GetHostName" =>
          res = (IF CarriesPort(arg.Host) THEN arg.Host ELSE arg.Host \o Port443)
    /\ (fn = "GetRequestName" /\ Index(arg.Path, ProjectsDir) >= 0) =>
          LET from == SubSeq(arg.Path, Index(arg.Path, ProjectsDir) + 1, Len(arg.Path))
              c == Index(from, Colon) IN
          res = (IF c >= 0 THEN SubSeq(from, 1, c) ELSE from)

---------------------------------------------------------------------------
(* Claims about the collection (under SpecCollect) *)

CollectFunctions == {"PopulateImages", "PopulateImages_VisionAPI"}

\* the run was aborted by main with status 1, nothing processed
AbortedBeforeProcessing ==
    /\ res.err # ""
    /\ pc = "exit"
    /\ exitStatus = 1
    /\ called = <<>>
    /\ createCount = 0
    /\ disk = OldDisk

\* C12 as stated: a match whose metadata cannot be read, whichever match it is (also
\* one the ignore list or the extension allow-list would skip), makes PopulateImages
\* fail and the run end with status 1 before anything is processed.
C12_AnyUnreadableMatchAborts ==
    (/\ fn \in CollectFunctions
     /\ \E k \in 1..Len(arg.glob.files) : arg.glob.files[k].statErr)
    => AbortedBeforeProcessing

\* C12 amended: a match whose metadata cannot be read and that no ignore pattern
\* matches (also one the extension allow-list would skip) makes PopulateImages fail
\* and the run end with status 1 before anything is processed.
C12_UnreadableMatchNotIgnoredAborts ==
    (/\ fn \in CollectFunctions
     /\ \E k \in 1..Len(arg.glob.files) :
            /\ arg.glob.files[k].statErr
            /\ (fn = "PopulateImages_VisionAPI" =>
                    ~IsIgnorableFile(arg.glob.files[k].name, arg.ignoreThis)))
    => AbortedBeforeProcessing

\* an image collected first, then a match the extension allow-list would skip and
\* whose metadata cannot be read: the run is aborted
C12_Witness ==
    /\ fn = "PopulateImages"
    /\ Len(arg.glob.files) = 2
    /\ arg.glob.files[1] = [name |-> JpgName, ext |-> ".jpg", statErr |-> FALSE,
                            isDir |-> FALSE, size |-> 10]
    /\ arg.glob.files[2].statErr /\ arg.glob.files[2].ext = ".JPG"
    /\ AbortedBeforeProcessing

\* the valid file extensions (README)
AllowedExtensions == {".bmp", ".gif", ".jpg", ".jpeg", ".pdf", ".png", ".tif", ".tiff", ".webp"}

\* a match stays in the collection: it is no directory, no ignore pattern matches it
\* (the variant with the ignore list), its extension is an allowed one (the variant
\* with the allow-list)
Kept(file) ==
    /\ ~file.isDir
    /\ fn = "PopulateImages_VisionAPI" =>
          ~ \E p \in 1..Len(arg.ignoreThis) : Match(arg.ignoreThis[p], file.name).matches
    /\ fn = "PopulateImages" => file.ext \in AllowedExtensions

---------------------------------------------------------------------------
(* Claims about the ignore list (under SpecIgnoreFile and SpecIgnore) *)

\* the lines of a text: the pieces between its line feeds
LinesOf(text) ==
    LET feeds == SelectSeq([k \in 1..Len(text) |-> k], LAMBDA k : text[k] = "\n")
        bounds == <<0>> \o feeds \o <<Len(text) + 1>> IN
    [j \in 1..(Len(feeds) + 1) |-> SubSeq(text, bounds[j] + 1, bounds[j + 1] - 1)]

\* a line without the white space (blank, tab, CR, LF) around it
Blank(ch) == ch \in {" ", "\t", "\r", "\n"}
Trimmed(line) ==
    LET inked == {k \in 1..Len(line) : ~Blank(line[k])} IN
    IF inked = {} THEN <<>>
    ELSE SubSeq(line, CHOOSE k \in inked : \A m \in inked : k <= m,
                      CHOOSE k \in inked : \A m \in inked : k >= m)

\* C14: handleIgnoreFile yields the lines of the content (ended by LF or CRLF), each
\* without its surrounding white space, those that are then empty left out, in their
\* order and with repetitions kept; empty content yields the empty list.
C14_PatternsAreTheTrimmedNonEmptyLines ==
    (fn = "handleIgnoreFile" /\ ~arg.file.err) =>
        LET lines == LinesOf(arg.file.contents) IN
        /\ res = SelectSeq([j \in 1..Len(lines) |-> Trimmed(lines[j])],
                           LAMBDA l : l # <<>>)
        /\ (arg.file.contents = <<>> => res = <<>>)
        /\ (arg.file.contents = WhitespacedContent =>
               res = <<<<"*", ".", "j", "p", "g">>, <<"*", ".", "b", "m", "p">>, <<".", "/", "e", "x", "a", "m", "p", "l", "e", "s", "/", "*", "*">>>>)

\* CRLF line ends, an empty line and a repeated pattern: the pattern twice
C14_Witness ==
    /\ fn = "handleIgnoreFile"
    /\ ~arg.file.err
    /\ arg.file.contents = CRLFContent
    /\ res = <<<<"*", ".", "j", "p", "g">>, <<"*", ".", "j", "p", "g">>>>

\* C15 (under SpecIgnore): IsIgnorableFile is true exactly when some pattern of the
\* list, a malformed one counting as non-matching, matches the whole file name, a
\* star never crossing a path separator; a malformed pattern does not keep a later
\* pattern from being tried; the empty list ignores nothing.
C15_IgnoredIffSomePatternMatches ==
    fn = "IsIgnorableFile" =>
        LET name == arg.fileName
            list == arg.ignoreList
            Has(p) == \E k \in 1..Len(list) : list[k] = p IN
        /\ res = \E k \in 1..Len(list) : Match(list[k], name).matches
        /\ (list = <<>> => res = FALSE)
        /\ (name = Aloha /\ Has(AnyJpg) => res = TRUE)
        /\ (name = Aloha /\ list = <<AnyBmp>> => res = FALSE)
        /\ (name = ExamplesAloha /\ list = <<AnyBmp>> => res = FALSE)
        /\ (name = ExamplesAloha /\ list = <<AnyJpg>> => res = FALSE)
        /\ (name = ExamplesAloha /\ Has(ExamplesAnyJpg) => res = TRUE)
        /\ (name \in {Aloha, ExamplesAloha} /\ (\A k \in 1..Len(list) :
                 list[k] \in {OpenClass, TrailingBackslash, EscapedStar, AnyBmp})
               => res = FALSE)

\* a malformed pattern first, a matching one after it: the file is ignored
C15_Witness ==
    /\ fn = "IsIgnorableFile"
    /\ arg.fileName = Aloha
    /\ arg.ignoreList = <<OpenClass, AnyJpg>>
    /\ res = TRUE

---------------------------------------------------------------------------
(* Claims about the annotations of a record (under SpecAnnotation) *)

\* the places of the paragraphs and of the words in the tree that was answered:
\* (page, block, paragraph) and (page, block, paragraph, word) of the Vision API,
\* (page, paragraph) of Document AI
ParagraphPlaces ==
    IF arg.backend = "vision"
    THEN UNION {UNION {{<<p, b, q>> : q \in 1..Len(arg.shape[p][b])} :
                          b \in 1..Len(arg.shape[p])} : p \in 1..Len(arg.shape)}
    ELSE UNION {{<<p, q>> : q \in 1..Len(arg.shape[p])} : p \in 1..Len(arg.shape)}
WordPlaces ==
    UNION {{<<pl[1], pl[2], pl[3], n>> : n \in 1..arg.shape[pl[1]][pl[2]][pl[3]]} :
              pl \in ParagraphPlaces}

\* place a comes before place b in the traversal of the tree
Before(a, b) ==
    \E k \in 1..Len(a) : a[k] < b[k] /\ \A j \in 1..(k - 1) : a[j] = b[j]

\* the annotations are those of the places, one each, in traversal order
OneEachInOrder(annotations, places) ==
    /\ Len(annotations) = Cardinality(places)
    /\ {annotations[k].Confidence : k \in 1..Len(annotations)} = places
    /\ \A k \in 1..(Len(annotations) - 1) :
          Before(annotations[k].Confidence, annotations[k + 1].Confidence)

\* C16: for a file recognized successfully, the paragraphs of the record (and its
\* words, where words are emitted) are those of the source tree, one annotation per
\* source paragraph and per source word, in the order pages, blocks, paragraphs,
\* words; none is missing, doubled or moved.
C16_AnnotationsInTraversalOrder ==
    (fn \in {"CallVisionAPI", "CallVisionAPI_VisionAPI", "CallDocumentAI"} /\ res.kind = "ok") =>
        /\ OneEachInOrder(res.info.Paragraphs, ParagraphPlaces)
        /\ fn = "CallVisionAPI_VisionAPI" => OneEachInOrder(res.info.Words, WordPlaces)

\* two pages, the first of two blocks: four paragraphs and five words, in tree order
C16_Witness ==
    /\ fn = "CallVisionAPI_VisionAPI"
    /\ arg.shape = << << <<1, 0>>, <<2>> >>, << <<2>> >> >>
    /\ res.kind = "ok"
    /\ [k \in 1..Len(res.info.Paragraphs) |-> res.info.Paragraphs[k].Confidence] =
          << <<1, 1, 1>>, <<1, 1, 2>>, <<1, 2, 1>>, <<2, 1, 1>> >>
    /\ [k \in 1..Len(res.info.Words) |-> res.info.Words[k].Confidence] =
          << <<1, 1, 1, 1>>, <<1, 2, 1, 1>>, <<1, 2, 1, 2>>, <<2, 1, 1, 1>>, <<2, 1, 1, 2>> >>
    /\ res.info.Paragraphs[3].Text = <<"A", "B", " ", "C">>

---------------------------------------------------------------------------
(* Further claims about the batch loop (under Spec) *)

\* the line of an image: its record in the chosen shape, and the newline
LineOf(info) ==
    (IF outputFull THEN GetFullJSON(info).data ELSE GetCompactJSON(info).data) \o <<NL>>

\* C17: a run that reports success (errorCount 0, exit status 0) has left in the
\* output file one complete line for every collected image, in collection order; a
\* flush that failed never leaves a record missing from a run that reports success.
C17_SuccessMeansEveryLineOnDisk ==
    (pc = "exit" /\ createCount = 1 /\ exitStatus = 0) =>
        /\ errorCount = 0
        /\ failed = {}
        /\ disk = Flatten([k \in 1..Len(Images) |-> LineOf(Images[k])])

\* the last Len(line) bytes of the file are the line
EndsWith(bytes, line) ==
    /\ Len(bytes) >= Len(line)
    /\ SubSeq(bytes, Len(bytes) - Len(line) + 1, Len(bytes)) = line

\* C18: when the backend answers no error and no response, the recognition step
\* returns no error: the image is not counted as failed, its record keeps an empty
\* text and no paragraphs, and (no write failing) that record is the line written.
C18_NilResponseIsASuccess ==
    (createCount = 1 /\ called # <<>> /\ response = NilReply) =>
        LET last == called[Len(called)] IN
        /\ Images[last].Text = NoText
        /\ Images[last].Paragraphs = <<>>
        /\ pc \in {"marshal", "write", "newline", "flush"} =>
              i = last /\ last \notin failed
        /\ pc \in {"write", "newline", "flush"} => jsonData \o <<NL>> = LineOf(Images[last])
        /\ space = -1 =>
              /\ last \notin failed
              /\ errorCount = Cardinality(failed)
              /\ pc \in {"recognize", "exit"} =>
                    /\ i = last + 1
                    /\ EndsWith(disk, LineOf(Images[last]))
                    /\ disk = good

\* a run of one image answered by no response: exit status 0, and the line of an
\* empty record in the file
C18_Witness ==
    /\ pc = "exit"
    /\ createCount = 1
    /\ Len(Images) = 1
    /\ called = <<1>>
    /\ response = NilReply
    /\ ~outputFull
    /\ errorCount = 0
    /\ exitStatus = 0
    /\ disk = <<[t |-> "filename", v |-> 1], [t |-> "size", v |-> 10], NL>>

\* C19: when the output file cannot be created the run ends with status 1 and no
\* recognition call was made; otherwise the file is created (truncated) exactly once,
\* before the first image is processed, so that a run in which every image failed
\* leaves an empty output file and ends with status 1.
C19_CreatedOnceBeforeProcessing ==
    /\ createCount \in {0, 1}
    /\ called # <<>> => createCount = 1
    /\ (pc = "exit" /\ createCount = 0) =>
          exitStatus = 1 /\ called = <<>> /\ disk = OldDisk
    /\ (pc = "exit" /\ createCount = 1 /\ exitStatus \in {0, 1}
           /\ failed = {k : k \in 1..Len(Images)}) =>
          disk = <<>> /\ exitStatus = 1

=============================================================================
